---- MODULE Spec2Model ----
(***************************************************************************)
(* Model of views/settings.py: the settings panel of the bot.              *)
(*                                                                         *)
(* A SettingsView owns a map of settings, the selected setting id, the     *)
(* last built embed and items, and the handle of the auto-delete task.     *)
(* Every coroutine is cut at its real suspension points only: the          *)
(* build_* coroutines never suspend, so an action callback or              *)
(* select_parameter runs atomically up to the HTTP call of refresh         *)
(* (edit_message / send_message); refresh resumes when the response is     *)
(* back and then cancels and reschedules the auto-delete task without      *)
(* suspending.  The auto-delete task suspends in asyncio.sleep and in      *)
(* delete_original_response.                                               *)
(***************************************************************************)
EXTENDS Integers, Sequences, FiniteSets, TLC

VARIABLES view, store, budget

vars == <<view, store, budget>>

\* ---------------------------------------------------------------- bounds
\* Total number of refresh calls (send included) over all views in a run.
MaxCalls == 3
\* The same, for the runs with two views.
MaxCallsPair == 4
\* The same, for the runs under fair scheduling.
MaxCallsFair == 3

Views == {"v1", "v2"}
OneView == {"v1"}
Channels == {"c1", "c2"}
OneChannel == {"c1"}

\* ------------------------------------------------------------- constants
None == "None"

\* The id attributes of the setting classes.
ClickerId == "clicker"
ToggleId == "toggle"
FixTweetId == "fixtweet"

\* The tuples of settings a view is constructed with: the one of
\* SettingsView.__init__, and the one that also lists the two settings
\* the module defines for testing.
Registries == { <<FixTweetId>>, <<ClickerId, ToggleId, FixTweetId>> }

\* str(value).lower() of a bool
LowerStr(b) == IF b THEN "true" ELSE "false"

RECURSIVE Dedup(_, _)
Dedup(s, seen) ==
    IF s = <<>> THEN <<>>
    ELSE IF Head(s) \in seen THEN Dedup(Tail(s), seen)
         ELSE <<Head(s)>> \o Dedup(Tail(s), seen \cup {Head(s)})

\* BaseSetting.dict_from_settings: a dict keyed by id, in insertion order.
dict_from_settings(classes) == Dedup(classes, {})

SeqRange(s) == { s[i] : i \in 1..Len(s) }

\* ------------------------------------------------------------- rendering
\* The name attribute of a setting class.
SettingName(id) ==
    CASE id = ClickerId -> "Clicker"
      [] id = ToggleId -> "Toggle"
      [] id = FixTweetId -> "settings.fixtweet.name"

NoEmbed == [title |-> None, channel |-> None, state |-> None, clicks |-> 0]

\* The default overview embed of SettingsView.build.
default_embed ==
    [title |-> "settings.title", channel |-> None, state |-> None, clicks |-> 0]

\* build_embed of the setting id of view r (ClickerSetting and
\* FixTweetSetting override it, ToggleSetting inherits BaseSetting's).
\* The permission lines of the fixtweet embed are read-only data of the
\* framework and are left out.
build_embed(r, id) ==
    CASE id = ClickerId ->
            [title |-> SettingName(id), channel |-> None, state |-> None,
             clicks |-> IF r.counter > 0 THEN r.counter ELSE 0]
      [] id = ToggleId ->
            [title |-> SettingName(id), channel |-> None, state |-> None,
             clicks |-> 0]
      [] id = FixTweetId ->
            [title |-> SettingName(id), channel |-> r.channel,
             state |-> LowerStr(r.fixtweet_state), clicks |-> 0]

\* BaseSetting.build_option
build_option(id, selected) ==
    [value |-> id, label |-> SettingName(id), default |-> selected]

\* build_action of the setting id of view r: a list of one button.
build_action(r, id) ==
    CASE id = ClickerId ->
            << [type |-> "button", custom_id |-> id, style |-> "primary",
                label |-> "Clicker", n |-> r.counter] >>
      [] id = ToggleId ->
            << [type |-> "button", custom_id |-> id,
                style |-> IF r.toggle_state THEN "green" ELSE "red",
                label |-> IF r.toggle_state THEN "Toggle ON" ELSE "Toggle OFF",
                n |-> 0] >>
      [] id = FixTweetId ->
            << [type |-> "button", custom_id |-> id,
                style |-> IF r.fixtweet_state THEN "primary" ELSE "secondary",
                label |-> IF r.fixtweet_state
                             THEN "settings.fixtweet.button.true"
                             ELSE "settings.fixtweet.button.false",
                n |-> 0] >>

\* Mutant of build_items: the items are not cleared first.
build_items_NoClear(r) ==
    LET actions == IF r.selected_id # None
                      THEN build_action(r, r.selected_id)
                      ELSE <<>>
        options == [i \in 1..Len(r.settings) |->
                      build_option(r.settings[i], r.settings[i] = r.selected_id)]
        parameter_selection == [type |-> "select", options |-> options]
    IN  [r EXCEPT !.items = @ \o actions \o <<parameter_selection>>]

\* SettingsView._build_items: clear the items, add the action controls of
\* the selected setting, then one selector with an option per setting.
build_items(r) ==
    LET actions == IF r.selected_id # None
                      THEN build_action(r, r.selected_id)
                      ELSE <<>>
        options == [i \in 1..Len(r.settings) |->
                      build_option(r.settings[i], r.settings[i] = r.selected_id)]
        parameter_selection == [type |-> "select", options |-> options]
    IN  [r EXCEPT !.items = actions \o <<parameter_selection>>]

\* Mutant of build: the embed is not rebuilt.
build_StaleEmbed(r) == build_items(r)

\* SettingsView.build: the items, then the embed.
build(r) ==
    LET b == build_items(r)
    IN  [b EXCEPT !.embed = IF b.selected_id # None
                               THEN build_embed(b, b.selected_id)
                               ELSE default_embed]

\* ------------------------------------------------------ auto-delete task
\* A task of _message_delete_after.  st is where the coroutine is:
\*   created   scheduled by create_task, first step not run yet
\*   sleeping  suspended in asyncio.sleep(delay)
\*   deleting  suspended in interaction.delete_original_response()
\*   finished  returned normally
\*   cancelled ended by a CancelledError that left the coroutine
\*   error     ended by any other exception that left the coroutine
\* cancelled_at is where the task was when cancel() was called ("no": never).
\* req is the DELETE request of the task: none, sent, aborted, ok, notfound.
\* deletes counts the calls of delete_original_response.
NewTask ==
    [st |-> "created", cancelled_at |-> "no", req |-> "none", deletes |-> 0]

Ended(t) == t.st \in {"finished", "cancelled", "error"}

\* scheduled, not cancelled and not finished
Pending(t) == ~Ended(t) /\ t.cancelled_at = "no"

\* Mutant of cancel: the old task is left running.
cancel_forgotten(t) == t

\* asyncio.Task.cancel(): no effect on a task that is done or already
\* being cancelled.
cancel(t) ==
    IF Ended(t) \/ t.cancelled_at # "no" THEN t
    ELSE [t EXCEPT !.cancelled_at = t.st]

\* Mutant of Caught: the clause names HTTPException only.
Caught_HTTPOnly(exc) == exc \in {"HTTPException"}

\* The except clause of _message_delete_after.
Caught(exc) == exc \in {"HTTPException", "CancelledError"}

\* Mutant of Raise: the coroutine has no try block.
Raise_NoHandler(exc, in_try) ==
    IF exc = "CancelledError" THEN "cancelled" ELSE "error"

\* How the task ends when exc is raised at its suspension point; in_try
\* is whether the coroutine had entered the try block.
Raise(exc, in_try) ==
    IF in_try /\ Caught(exc) THEN "finished"
    ELSE IF exc = "CancelledError" THEN "cancelled"
    ELSE "error"

\* --------------------------------------------------------------- refresh
NoMessage == [status |-> "none", view |-> <<>>, embed |-> NoEmbed]

\* Mutant of refresh_call: the message is sent on every refresh.
refresh_call_AlwaysSend(r, interaction_message) ==
    LET b == build(r)
    IN  [b EXCEPT !.calls = Append(@,
            [http |-> "send",
             pc |-> "request", view |-> b.items, embed |-> b.embed])]

\* Mutant of refresh_call: the refresh is started twice.
refresh_call_Twice(r, interaction_message) ==
    LET b == build(r)
        c == [http |-> IF interaction_message # None THEN "edit" ELSE "send",
              pc |-> "request", view |-> b.items, embed |-> b.embed]
    IN  [b EXCEPT !.calls = @ \o <<c, c>>]

\* The first half of SettingsView.refresh, up to the suspension in the
\* HTTP call: build, then edit_message when the interaction carries a
\* message and send_message otherwise.
refresh_call(r, interaction_message) ==
    LET b == build(r)
    IN  [b EXCEPT !.calls = Append(@,
            [http |-> IF interaction_message # None THEN "edit" ELSE "send",
             pc |-> "request", view |-> b.items, embed |-> b.embed])]

\* The second half of SettingsView.refresh: cancel the task stored in
\* timeout_task if there is one, then create the new task and store it.
refresh_schedule(r) ==
    LET old == IF r.timeout_task # 0
                  THEN [r.tasks EXCEPT ![r.timeout_task] = cancel(@)]
                  ELSE r.tasks
    IN  [r EXCEPT !.tasks = Append(old, NewTask),
                  !.timeout_task = Len(old) + 1]

\* ----------------------------------------------------------------- state
NoView ==
    [exists |-> FALSE, settings |-> <<>>, channel |-> None,
     counter |-> 0, toggle_state |-> FALSE, fixtweet_state |-> FALSE,
     selected_id |-> None, embed |-> NoEmbed, items |-> <<>>,
     timeout_task |-> 0, tasks |-> <<>>, calls |-> <<>>,
     message |-> NoMessage,
     fix_init |-> FALSE, fix_acts |-> 0]

\* store holds the fix_twitter flag of the rows of the durable store, one
\* per channel a view can be opened on.
Init ==
    /\ view = [v \in Views |-> NoView]
    /\ store \in [OneChannel -> BOOLEAN]
    /\ budget = MaxCalls

InitFair ==
    /\ view = [v \in Views |-> NoView]
    /\ store \in [OneChannel -> BOOLEAN]
    /\ budget = MaxCallsFair

InitPair ==
    /\ view = [v \in Views |-> NoView]
    /\ store \in [Channels -> BOOLEAN]
    /\ budget = MaxCallsPair

\* The framework dispatches the interactions of the components of a view
\* once the send_message that carried the view has returned, and a
\* component can be used while its message is there.
Dispatchable(r) ==
    /\ r.message.status = "live"
    /\ r.calls # <<>>
    /\ r.calls[1].pc = "done"

\* The custom ids of the buttons the message of view r shows.
ShownButtons(r) ==
    { r.message.view[i].custom_id :
        i \in { j \in 1..Len(r.message.view) : r.message.view[j].type = "button" } }

\* The values the selector of the message of view r offers.
ShownValues(r) ==
    UNION { SeqRange([k \in 1..Len(r.message.view[i].options) |->
                        r.message.view[i].options[k].value]) :
        i \in { j \in 1..Len(r.message.view) : r.message.view[j].type = "select" } }

\* SettingsView.__init__ (with FixTweetSetting.__init__, ClickerSetting.__init__
\* and ToggleSetting.__init__): i.channel is ch.
SettingsViewInit(v, ch, classes) ==
    /\ ~view[v].exists
    /\ view' = [view EXCEPT ![v] =
          [NoView EXCEPT !.exists = TRUE,
                         !.settings = dict_from_settings(classes),
                         !.channel = ch,
                         !.counter = 0,
                         !.toggle_state = FALSE,
                         !.fixtweet_state = store[ch],
                         !.fix_init = store[ch]]]
    /\ UNCHANGED <<store, budget>>

\* send = refresh, called by the command that opened the view with the
\* command's interaction, whose message is None.  The command calls it once,
\* on the view it has just constructed.
Send(v) ==
    /\ view[v].exists
    /\ view[v].calls = <<>>
    /\ budget > 0
    /\ view' = [view EXCEPT ![v] = refresh_call(@, None)]
    /\ budget' = budget - 1
    /\ UNCHANGED store

\* SettingsView.select_parameter, up to the suspension of refresh.  The
\* interaction of a component carries the message the component is on.
select_parameter(v, value) ==
    /\ Dispatchable(view[v])
    /\ value \in ShownValues(view[v])
    /\ budget > 0
    /\ view' = [view EXCEPT ![v] =
          refresh_call([@ EXCEPT !.selected_id = value], "message")]
    /\ budget' = budget - 1
    /\ UNCHANGED store

\* ClickerSetting.action, up to the suspension of refresh.
ClickerAction(v) ==
    /\ Dispatchable(view[v])
    /\ ClickerId \in ShownButtons(view[v])
    /\ budget > 0
    /\ view' = [view EXCEPT ![v] =
          refresh_call([@ EXCEPT !.counter = @ + 1], "message")]
    /\ budget' = budget - 1
    /\ UNCHANGED store

\* ToggleSetting.action, up to the suspension of refresh.
ToggleAction(v) ==
    /\ Dispatchable(view[v])
    /\ ToggleId \in ShownButtons(view[v])
    /\ budget > 0
    /\ view' = [view EXCEPT ![v] =
          refresh_call([@ EXCEPT !.toggle_state = ~@], "message")]
    /\ budget' = budget - 1
    /\ UNCHANGED store

\* Mutant of fixtweet_toggle: the flag is not negated.
fixtweet_toggle_Kept(state) == state

\* The state FixTweetSetting.action assigns to self.state.
fixtweet_toggle(state) == ~state

\* Mutant of fixtweet_update: every row is updated.
fixtweet_update_AllRows(r, st) == [c \in DOMAIN st |-> r.fixtweet_state]

\* Mutant of fixtweet_update: the value before the negation is written.
fixtweet_update_Stale(r, st) == [st EXCEPT ![r.channel] = ~r.fixtweet_state]

\* The row FixTweetSetting.action updates and the value it writes.
fixtweet_update(r, st) == [st EXCEPT ![r.channel] = r.fixtweet_state]

\* FixTweetSetting.action, up to the suspension of refresh.
FixTweetAction(v) ==
    /\ Dispatchable(view[v])
    /\ FixTweetId \in ShownButtons(view[v])
    /\ budget > 0
    /\ LET toggled == [view[v] EXCEPT
                          !.fixtweet_state = fixtweet_toggle(@),
                          !.fix_acts = @ + 1]
       IN  /\ store' = fixtweet_update(toggled, store)
           /\ view' = [view EXCEPT ![v] = refresh_call(toggled, "message")]
    /\ budget' = budget - 1

\* The framework's endpoint handles the request of call i of view v:
\* send_message creates the message, edit_message replaces the view and
\* the embed of the message, and fails when the message is gone.
ServerRespond(v, i) ==
    /\ i \in 1..Len(view[v].calls)
    /\ view[v].calls[i].pc = "request"
    /\ LET c == view[v].calls[i]
           gone == c.http = "edit" /\ view[v].message.status # "live"
       IN  view' = [view EXCEPT ![v] =
              [@ EXCEPT !.calls[i] = [c EXCEPT !.pc = IF gone THEN "err" ELSE "ok",
                                               !.view = <<>>,
                                               !.embed = NoEmbed],
                        !.message = IF gone THEN @
                                    ELSE [status |-> "live", view |-> c.view,
                                          embed |-> c.embed]]]
    /\ UNCHANGED <<store, budget>>

\* refresh resumes after its HTTP call: on success it cancels and
\* reschedules the auto-delete task; an HTTPException of the call leaves
\* refresh before that.
RefreshResume(v, i) ==
    /\ i \in 1..Len(view[v].calls)
    /\ view[v].calls[i].pc \in {"ok", "err"}
    /\ view' = [view EXCEPT ![v] =
          IF view[v].calls[i].pc = "ok"
             THEN [refresh_schedule(@) EXCEPT !.calls[i].pc = "done"]
             ELSE [@ EXCEPT !.calls[i].pc = "raised"]]
    /\ UNCHANGED <<store, budget>>

\* First step of task k of view v: a task cancelled before its first step
\* gets the CancelledError before the coroutine enters the try block.
TaskStart(v, k) ==
    /\ k \in 1..Len(view[v].tasks)
    /\ view[v].tasks[k].st = "created"
    /\ view' = [view EXCEPT ![v].tasks[k].st =
          IF view[v].tasks[k].cancelled_at # "no"
             THEN Raise("CancelledError", FALSE)
             ELSE "sleeping"]
    /\ UNCHANGED <<store, budget>>

\* asyncio.sleep(delay) returns: the task calls delete_original_response.
TaskExpire(v, k) ==
    /\ k \in 1..Len(view[v].tasks)
    /\ view[v].tasks[k].st = "sleeping"
    /\ view[v].tasks[k].cancelled_at = "no"
    /\ view' = [view EXCEPT ![v].tasks[k] =
          [@ EXCEPT !.st = "deleting", !.req = "sent", !.deletes = @ + 1]]
    /\ UNCHANGED <<store, budget>>

\* The CancelledError of cancel() is raised at the suspension point of the
\* task.  A DELETE request already written to the connection is not
\* recalled by it; one not yet written is dropped.
TaskCancelled(v, k) ==
    /\ k \in 1..Len(view[v].tasks)
    /\ view[v].tasks[k].st \in {"sleeping", "deleting"}
    /\ view[v].tasks[k].cancelled_at # "no"
    /\ \E recalled \in BOOLEAN :
          view' = [view EXCEPT ![v].tasks[k] =
             [@ EXCEPT !.st = Raise("CancelledError", TRUE),
                       !.req = IF @ = "sent" /\ recalled THEN "aborted" ELSE @]]
    /\ UNCHANGED <<store, budget>>

\* The framework's endpoint handles the DELETE request of task k.
ServerDelete(v, k) ==
    /\ k \in 1..Len(view[v].tasks)
    /\ view[v].tasks[k].req = "sent"
    /\ view' = [view EXCEPT ![v] =
          IF view[v].message.status = "live"
             THEN [@ EXCEPT !.tasks[k].req = "ok",
                            !.message = [NoMessage EXCEPT !.status = "deleted"]]
             ELSE [@ EXCEPT !.tasks[k].req = "notfound"]]
    /\ UNCHANGED <<store, budget>>

\* delete_original_response returns, or raises the HTTPException of a
\* message that is gone.
TaskDeleteReturn(v, k) ==
    /\ k \in 1..Len(view[v].tasks)
    /\ view[v].tasks[k].st = "deleting"
    /\ view[v].tasks[k].cancelled_at = "no"
    /\ view[v].tasks[k].req \in {"ok", "notfound"}
    /\ view' = [view EXCEPT ![v].tasks[k].st =
          IF view[v].tasks[k].req = "ok" THEN "finished"
          ELSE Raise("HTTPException", TRUE)]
    /\ UNCHANGED <<store, budget>>

TaskStep(v) ==
    \E k \in 1..Len(view[v].tasks) :
        \/ TaskStart(v, k)
        \/ TaskExpire(v, k)
        \/ TaskCancelled(v, k)
        \/ ServerDelete(v, k)
        \/ TaskDeleteReturn(v, k)

\* The HTTP calls of the refreshes of view v.
HttpStep(v) ==
    \E i \in 1..Len(view[v].calls) : ServerRespond(v, i) \/ RefreshResume(v, i)

ViewStep(v) ==
    \/ \E ch \in DOMAIN store, classes \in Registries : SettingsViewInit(v, ch, classes)
    \/ Send(v)
    \/ \E value \in {ClickerId, ToggleId, FixTweetId} : select_parameter(v, value)
    \/ ClickerAction(v)
    \/ ToggleAction(v)
    \/ FixTweetAction(v)
    \/ HttpStep(v)
    \/ TaskStep(v)

\* The steps of the tasks of view v while no countdown runs out.
TaskStepIdle(v) ==
    \E k \in 1..Len(view[v].tasks) : TaskStart(v, k) \/ TaskCancelled(v, k)

\* A view as SettingsView.__init__ registers its settings (fixtweet only),
\* over a time shorter than the delay of the countdowns.
PairStep(v) ==
    \/ \E ch \in DOMAIN store : SettingsViewInit(v, ch, <<FixTweetId>>)
    \/ Send(v)
    \/ select_parameter(v, FixTweetId)
    \/ FixTweetAction(v)
    \/ HttpStep(v)
    \/ TaskStepIdle(v)

Next == \E v \in OneView : ViewStep(v)

NextPair == \E v \in Views : PairStep(v)

Spec == Init /\ [][Next]_vars

SpecPair == InitPair /\ [][NextPair]_vars

\* A view as SettingsView.__init__ registers its settings, refreshed by
\* send and by selections, with its countdowns running out.
FairStep(v) ==
    \/ \E ch \in DOMAIN store : SettingsViewInit(v, ch, <<FixTweetId>>)
    \/ Send(v)
    \/ select_parameter(v, FixTweetId)
    \/ FixTweetAction(v)
    \/ HttpStep(v)
    \/ TaskStep(v)

NextFair == \E v \in OneView : FairStep(v)

\* The event loop runs every task that can run, the timer of a sleep fires,
\* and the endpoint handles every request it was sent.
Fairness ==
    \A v \in OneView : \A k \in 1..MaxCallsFair :
        /\ WF_vars(TaskStart(v, k) \/ TaskExpire(v, k) \/ TaskCancelled(v, k)
                      \/ TaskDeleteReturn(v, k))
        /\ WF_vars(ServerDelete(v, k))

FairSpec == InitFair /\ [][NextFair]_vars /\ Fairness

\* ================================================================ claims
SettingIds == {ClickerId, ToggleId, FixTweetId}

Built(r) == r.calls # <<>>

IsButton(x) == x.type = "button"

\* The tasks of view r that are pending.
PendingTasks(r) == { k \in 1..Len(r.tasks) : Pending(r.tasks[k]) }

\* ---- C1
\* C1: in every reachable state, for every view, no task other than the one
\* stored in timeout_task is pending (refresh has cancelled the one it
\* replaced), so at most one auto-delete countdown per view is pending.
C1_AtMostOnePending ==
    \A v \in Views :
        /\ \A k \in 1..Len(view[v].tasks) :
              k # view[v].timeout_task => ~Pending(view[v].tasks[k])
        /\ Cardinality(PendingTasks(view[v])) <= 1

\* A refresh has superseded a countdown that was still pending: the old
\* task was cancelled in its sleep and the new one is pending.
C1_Witness ==
    \E v \in Views :
        /\ Len(view[v].tasks) >= 2
        /\ view[v].tasks[1].cancelled_at = "sleeping"
        /\ Pending(view[v].tasks[2])

\* ---- C2
\* What a rebuild for the selected setting s leaves in view r.
ShowsSetting(r, s) ==
    /\ r.selected_id = s
    /\ r.embed.title = SettingName(s)
    /\ r.embed = build_embed(r, s)
    /\ SelectSeq(r.items, IsButton) = build_action(r, s)
    /\ \A i \in 1..Len(r.items) :
          r.items[i].type = "select" =>
             \A j \in 1..Len(r.items[i].options) :
                r.items[i].options[j].default <=> (r.items[i].options[j].value = s)

\* C2: every step of select_parameter with a value s of the settings map
\* leaves the view with the embed of s, exactly the action controls of s,
\* and the option of s, and no other, marked default.
C2_SelectShowsSetting ==
    [][\A v \in Views, s \in SettingIds :
          (select_parameter(v, s) /\ s \in SeqRange(view[v].settings))
             => ShowsSetting(view'[v], s)]_vars

\* A view of three settings, sent and refreshed twice, on which toggle was
\* selected.
C2_Witness ==
    \E v \in Views :
        /\ Len(view[v].settings) = 3
        /\ Len(view[v].calls) = 3
        /\ view[v].selected_id = ToggleId
        /\ view[v].embed.title = "Toggle"

\* ---- C4
\* C4: no auto-delete task ends with an error; a task cancelled in its
\* sleep or in its delete, and a task whose delete found the message gone,
\* finishes normally.
C4_TaskNeverFails ==
    \A v \in Views : \A k \in 1..Len(view[v].tasks) :
        LET t == view[v].tasks[k]
        IN  /\ t.st # "error"
            /\ (Ended(t) /\ t.cancelled_at \in {"sleeping", "deleting"})
                  => t.st = "finished"
            /\ (Ended(t) /\ t.cancelled_at = "no" /\ t.req = "notfound")
                  => t.st = "finished"

\* One task was cancelled while deleting, and a later one expired and
\* found the message already deleted; both have ended.
C4_Witness ==
    \E v \in Views : \E k1, k2 \in 1..Len(view[v].tasks) :
        /\ view[v].tasks[k1].cancelled_at = "deleting"
        /\ Ended(view[v].tasks[k1])
        /\ view[v].tasks[k2].cancelled_at = "no"
        /\ view[v].tasks[k2].req = "notfound"
        /\ Ended(view[v].tasks[k2])

C8_ItemsShape ==
    \A v \in Views :
        LET r == view[v]
            n == Len(r.items)
        IN  Built(r) =>
              /\ n >= 1
              /\ r.items[n].type = "select"
              /\ \A i \in 1..(n - 1) :
                    /\ r.items[i].type = "button"
                    /\ r.items[i].custom_id = r.selected_id
              /\ Len(r.items[n].options) = Len(r.settings)
              /\ \A j \in 1..Len(r.settings) :
                    /\ r.items[n].options[j].value = r.settings[j]
                    /\ r.items[n].options[j].default <=> (r.settings[j] = r.selected_id)
              /\ r.selected_id # None =>
                    /\ n = 2
                    /\ r.embed.title = SettingName(r.selected_id)
              /\ r.selected_id = None =>
                    /\ n = 1
                    /\ \A j \in 1..Len(r.settings) : ~r.items[n].options[j].default
                    /\ r.embed = default_embed

\* A rebuilt view of three settings with the second one selected.
C8_Witness ==
    \E v \in Views :
        /\ Built(view[v])
        /\ view[v].settings = <<ClickerId, ToggleId, FixTweetId>>
        /\ view[v].selected_id = ToggleId
        /\ Len(view[v].items) = 2

\* ---- C3
IsActivation(v) == ClickerAction(v) \/ ToggleAction(v) \/ FixTweetAction(v)

\* What an activation on view v leaves alone in memory, and the one refresh
\* it starts: one more call, built from the state the activation left.
ActivationFrame(v) ==
    LET r == view[v]
        q == view'[v]
    IN  /\ \A w \in Views \ {v} : view'[w] = view[w]
        /\ q.selected_id = r.selected_id
        /\ q.settings = r.settings
        /\ q.channel = r.channel
        /\ q.exists = r.exists
        /\ q.timeout_task = r.timeout_task
        /\ q.tasks = r.tasks
        /\ q.message = r.message
        /\ Len(q.calls) = Len(r.calls) + 1
        /\ SubSeq(q.calls, 1, Len(r.calls)) = r.calls
        /\ ClickerAction(v) =>
              /\ q.counter = r.counter + 1
              /\ q.toggle_state = r.toggle_state
              /\ q.fixtweet_state = r.fixtweet_state
        /\ ToggleAction(v) =>
              /\ q.counter = r.counter
              /\ q.toggle_state = ~r.toggle_state
              /\ q.fixtweet_state = r.fixtweet_state
        /\ FixTweetAction(v) =>
              /\ q.counter = r.counter
              /\ q.toggle_state = r.toggle_state
              /\ q.fixtweet_state = ~r.fixtweet_state

\* C3 as stated: an activation changes the setting's own counter or flag,
\* starts one refresh, and changes no other piece of state.
C3_OnlyOwnState ==
    [][\A v \in Views :
          IsActivation(v) => (ActivationFrame(v) /\ store' = store)]_vars

\* C3 amended: an activation changes the setting's own counter or flag and
\* starts one refresh; the fixtweet activation also writes the new flag to
\* the row of its channel in the durable store, and nothing else changes.
C3_OwnStateAndStoreRow ==
    [][\A v \in Views :
          IsActivation(v) =>
             /\ ActivationFrame(v)
             /\ FixTweetAction(v) =>
                   store' = [store EXCEPT ![view[v].channel] = view'[v].fixtweet_state]
             /\ ~FixTweetAction(v) => store' = store]_vars

\* The fixtweet control was activated once: the flag and the row changed.
C3_Witness ==
    \E v \in Views :
        /\ view[v].fix_acts = 1
        /\ view[v].fixtweet_state # view[v].fix_init
        /\ store[view[v].channel] = view[v].fixtweet_state
        /\ Len(view[v].calls) = 3

C9_SupersededNeverDeletes ==
    [][\A v \in Views : \A k \in 1..Len(view[v].tasks) :
          (view[v].tasks[k].req = "sent" /\ view'[v].tasks[k].req = "ok")
             => k = view[v].timeout_task]_vars

\* ---- C10
NegN(b, n) == IF n % 2 = 0 THEN b ELSE ~b

C7_CountdownCompletes ==
    /\ \A v \in OneView : \A k \in 1..MaxCallsFair :
          (k <= Len(view[v].tasks))
             ~> (/\ k <= Len(view[v].tasks)
                 /\ \/ Ended(view[v].tasks[k])
                    \/ view[v].tasks[k].cancelled_at # "no")
    /\ [](\A v \in OneView : \A k \in 1..Len(view[v].tasks) :
             LET t == view[v].tasks[k]
             IN  /\ t.deletes <= 1
                 /\ (Ended(t) /\ t.cancelled_at = "no")
                       => /\ t.st = "finished"
                          /\ t.deletes = 1
                          /\ t.req \in {"ok", "notfound"})
    /\ [][\A v \in OneView : \A k \in 1..Len(view[v].tasks) :
             Ended(view[v].tasks[k]) =>
                view'[v].tasks[k].st = view[v].tasks[k].st]_vars

\* The countdown of the last refresh expired and deleted the message.
C7_Witness ==
    \E v \in OneView :
        /\ view[v].timeout_task > 0
        /\ \A i \in 1..Len(view[v].calls) : view[v].calls[i].pc = "done"
        /\ LET t == view[v].tasks[view[v].timeout_task]
           IN  t.st = "finished" /\ t.cancelled_at = "no" /\ t.deletes = 1
                  /\ t.req = "ok"
        /\ view[v].message.status = "deleted"

====
